---- MODULE Spec2Model ----
(***************************************************************************)
(* RustableDrone: one node of a source-routed packet network.              *)
(* The node's fields, its two inlets, its outbound channels and the        *)
(* position of `run` are the state; every branch of `run` is an action;    *)
(* the packet and command handlers are operators computed as the code      *)
(* computes them.                                                          *)
(***************************************************************************)
EXTENDS Integers, Sequences, FiniteSets, TLC

VARIABLES
    id,               \* RustableDrone.id
    drop_rate,        \* RustableDrone.drop_rate (f32, see Rate / NaN)
    packet_send,      \* RustableDrone.packet_send: NodeId -> channel
    settings,         \* RustableDrone.settings
    filter,           \* RustableDrone.filter
    flood_ids,        \* RustableDrone.flood_ids (a Vec)
    has_to_crash,     \* RustableDrone.has_to_crash
    controller_recv,  \* items buffered in the command inlet
    packet_recv,      \* items buffered in the packet inlet
    hung_up,          \* inlets all of whose senders have been dropped
    closed,           \* outbound channels whose receiver has been dropped
    pc,               \* position of run: "loop", "drain", "returned", "panicked"
    sent,             \* what the last serviced item put on neighbor channels
    events,           \* what the last serviced item sent to the controller
    handled,          \* the last item taken from an inlet
    rolled,           \* how the drop roll came out for the last packet, if it was made
    backlog,          \* packets buffered when Crash was processed
    serviced_after,   \* packets serviced since Crash was processed
    net               \* the network around the node, where one is modelled (see SpecNet)

vars == <<id, drop_rate, packet_send, settings, filter, flood_ids, has_to_crash,
          controller_recv, packet_recv, hung_up, closed, pc, sent, events,
          handled, rolled, backlog, serviced_after, net>>

node_fields == <<id, drop_rate, packet_send, settings, filter, flood_ids, has_to_crash>>

\* net where no network is modelled.
NoNet ==
    [table |-> <<>>, seen |-> <<>>, inbox |-> <<>>, outbox |-> <<>>,
     dead |-> {}, focus |-> 0, count |-> 0]

(***************************************************************************)
(* Bounds of the model.                                                    *)
(***************************************************************************)
MaxHops == 3      \* longest hop list of a packet under test
MaxQueue == 2     \* most items an inlet buffers at once

NodeIds == {1, 2, 3}
DroneIds == {1}

(***************************************************************************)
(* Values.                                                                 *)
(***************************************************************************)
\* f32 drop rates in hundredths; NaN is a value of its own.
Rate(x) == [nan |-> FALSE, pct |-> x]
NaN == [nan |-> TRUE, pct |-> 0]

\* u64::MAX, written as its two's-complement value.
U64_MAX == -1

None == <<>>
Some(x) == <<x>>
unwrap(o) == o[1]

\* Vec indexing is zero-based.
At(v, i) == v[i + 1]
Get(v, i) == IF i >= 0 /\ i < Len(v) THEN Some(At(v, i)) ELSE None
Contains(v, x) == \E i \in 1..Len(v) : v[i] = x
Reverse(v) == [i \in 1..Len(v) |-> v[Len(v) + 1 - i]]

PacketChan(n) == <<"packet", n>>
EventChan == <<"event">>

Header(i, h) == [hop_index |-> i, hops |-> h]
Packet(h, s, t) == [routing_header |-> h, session_id |-> s, pack_type |-> t]

Dropped == [tag |-> "Dropped"]
DestinationIsDrone == [tag |-> "DestinationIsDrone"]
ErrorInRouting(n) == [tag |-> "ErrorInRouting", node |-> n]
UnexpectedRecipient(n) == [tag |-> "UnexpectedRecipient", node |-> n]

MsgFragment(fi, d) == [tag |-> "MsgFragment", fragment_index |-> fi, data |-> d]
Ack(fi) == [tag |-> "Ack", fragment_index |-> fi]
Nack(fi, nt) == [tag |-> "Nack", fragment_index |-> fi, nack_type |-> nt]
FloodRequest(f, pt) == [tag |-> "FloodRequest", flood_id |-> f, path_trace |-> pt]
FloodResponse(f, pt) == [tag |-> "FloodResponse", flood_id |-> f, path_trace |-> pt]

ControllerShortcut(p) == [tag |-> "ControllerShortcut", packet |-> p]

(***************************************************************************)
(* wg_2024::network::SourceRoutingHeader, as the data model describes it.  *)
(***************************************************************************)
previous_hop(h) == IF h.hop_index = 0 THEN None ELSE Get(h.hops, h.hop_index - 1)
next_hop(h) == Get(h.hops, h.hop_index + 1)
is_last_hop(h) == h.hop_index = Len(h.hops) - 1
get_reversed(h) == Header(0, Reverse(h.hops))
default_header == Header(0, <<>>)

(***************************************************************************)
(* PacketFilter (packets_filter.rs).                                       *)
(***************************************************************************)
FilterTypes == {"BlackList", "WhiteList"}
filter_default == [list |-> <<>>, filter_type |-> "BlackList"]

add(f, n) == IF ~Contains(f.list, n) THEN [f EXCEPT !.list = Append(f.list, n)] ELSE f

\* Vec::remove at the first position that holds n.
remove(f, n) ==
    IF Contains(f.list, n)
    THEN LET p == CHOOSE i \in 1..Len(f.list) :
                      f.list[i] = n /\ \A j \in 1..(i - 1) : f.list[j] # n
         IN [f EXCEPT !.list = SubSeq(f.list, 1, p - 1) \o SubSeq(f.list, p + 1, Len(f.list))]
    ELSE f

is_allowed_modes_swapped(f, n) ==
    IF f.filter_type = "BlackList" THEN Contains(f.list, n) ELSE ~Contains(f.list, n)

is_allowed(f, n) ==
    IF f.filter_type = "BlackList" THEN ~Contains(f.list, n) ELSE Contains(f.list, n)

clear(f) == [f EXCEPT !.list = <<>>]
set(f, l) == [f EXCEPT !.list = l]
set_type(f, t) == [f EXCEPT !.filter_type = t]

(***************************************************************************)
(* DroneSettings (drone_settings.rs).                                      *)
(***************************************************************************)
settings_default ==
    [log_to_stdout |-> FALSE, sleep_duration |-> 0,
     await_queued_packets_on_crash |-> TRUE, filter_packets |-> TRUE,
     send_nack_on_filtered_packet |-> FALSE, quack |-> FALSE]

(***************************************************************************)
(* What servicing one item does: the packets put on neighbor channels, the *)
(* events sent to the controller, the new flood_ids, and whether the       *)
(* thread panicked (what was sent before the panic stays sent).            *)
(***************************************************************************)
Outcome(s, e, f, p) ==
    [sends |-> s, events |-> e, flood_ids |-> f, panic |-> p, roll |-> "none"]
Panic == Outcome(<<>>, <<>>, flood_ids, TRUE)
Silent == Outcome(<<>>, <<>>, flood_ids, FALSE)

contains_key(m, k) == k \in DOMAIN m

\* Sender::send on the channel stored under key `to`; Err when its receiver is gone.
channel_send(to, p) ==
    IF packet_send[to] \in closed
    THEN Panic
    ELSE Outcome(<<[to |-> to, chan |-> packet_send[to], packet |-> p]>>, <<>>, flood_ids, FALSE)

\* rand's gen_bool: the outcomes a Bernoulli trial of probability p can have;
\* a p outside [0, 1] (NaN included) panics.
gen_bool(p) ==
    IF p.nan \/ p.pct < 0 \/ p.pct > 100 THEN {"panic"}
    ELSE IF p.pct = 0 THEN {"false"}
    ELSE IF p.pct = 100 THEN {"true"}
    ELSE {"true", "false"}

send_nack(from, nacked_packet, fragment_index, nack_type) ==
    LET rev == get_reversed(nacked_packet.routing_header)
        rev_header == [rev EXCEPT !.hop_index = rev.hop_index + 1]
    IN channel_send(from, Packet(rev_header, nacked_packet.session_id,
                                 Nack(fragment_index, nack_type)))

send_nack_through_controller(nacked_packet, fragment_index, nack_type) ==
    IF EventChan \in closed
    THEN Panic
    ELSE Outcome(<<>>,
                 <<ControllerShortcut(Packet(get_reversed(nacked_packet.routing_header),
                                             nacked_packet.session_id,
                                             Nack(fragment_index, nack_type)))>>,
                 flood_ids, FALSE)

QUACK == <<81, 85, 65, 67, 75>>
quacked(data) == [i \in 1..Len(data) |-> QUACK[((i - 1) % Len(QUACK)) + 1]]

\* Variants of fragment_not_dropped that differ from the code in one respect each;
\* the claims below must tell them from it.
fragment_not_dropped_same_cursor(packet, fragment, from, to) ==
    LET h == packet.routing_header IN
    IF settings.filter_packets /\ ~is_allowed(filter, from) THEN
        IF settings.send_nack_on_filtered_packet THEN
            IF contains_key(packet_send, from)
            THEN send_nack(from, packet, fragment.fragment_index, Dropped)
            ELSE Panic
        ELSE Silent
    ELSE IF ~contains_key(packet_send, to) THEN
        IF contains_key(packet_send, from)
        THEN send_nack(from, packet, fragment.fragment_index, ErrorInRouting(to))
        ELSE Panic
    ELSE IF At(h.hops, h.hop_index) # id THEN
        IF contains_key(packet_send, from)
        THEN send_nack(from, packet, fragment.fragment_index, UnexpectedRecipient(id))
        ELSE Panic
    ELSE channel_send(to, Packet(h, packet.session_id, fragment))

fragment_not_dropped_flag_ignored(packet, fragment, from, to) ==
    LET h == packet.routing_header IN
    IF settings.filter_packets /\ ~is_allowed(filter, from) THEN Silent
    ELSE IF ~contains_key(packet_send, to) THEN
        IF contains_key(packet_send, from)
        THEN send_nack(from, packet, fragment.fragment_index, ErrorInRouting(to))
        ELSE Panic
    ELSE IF At(h.hops, h.hop_index) # id THEN
        IF contains_key(packet_send, from)
        THEN send_nack(from, packet, fragment.fragment_index, UnexpectedRecipient(id))
        ELSE Panic
    ELSE
        LET out == IF settings.quack
                   THEN [fragment EXCEPT !.data = quacked(fragment.data)]
                   ELSE fragment
        IN channel_send(to, Packet([h EXCEPT !.hop_index = h.hop_index + 1],
                                   packet.session_id, out))

fragment_not_dropped_impostor_first(packet, fragment, from, to) ==
    LET h == packet.routing_header IN
    IF settings.filter_packets /\ ~is_allowed(filter, from) THEN
        IF settings.send_nack_on_filtered_packet THEN
            IF contains_key(packet_send, from)
            THEN send_nack(from, packet, fragment.fragment_index, Dropped)
            ELSE Panic
        ELSE Silent
    ELSE IF At(h.hops, h.hop_index) # id THEN
        IF contains_key(packet_send, from)
        THEN send_nack(from, packet, fragment.fragment_index, UnexpectedRecipient(id))
        ELSE Panic
    ELSE IF ~contains_key(packet_send, to) THEN
        IF contains_key(packet_send, from)
        THEN send_nack(from, packet, fragment.fragment_index, ErrorInRouting(to))
        ELSE Panic
    ELSE
        LET out == IF settings.quack
                   THEN [fragment EXCEPT !.data = quacked(fragment.data)]
                   ELSE fragment
        IN channel_send(to, Packet([h EXCEPT !.hop_index = h.hop_index + 1],
                                   packet.session_id, out))

\* msg_fragment_handler from the filter on: the drop roll came out false.
fragment_not_dropped(packet, fragment, from, to) ==
    LET h == packet.routing_header IN
    IF settings.filter_packets /\ ~is_allowed(filter, from) THEN
        IF settings.send_nack_on_filtered_packet THEN
            IF contains_key(packet_send, from)
            THEN send_nack(from, packet, fragment.fragment_index, Dropped)
            ELSE Panic
        ELSE Silent
    ELSE IF ~contains_key(packet_send, to) THEN
        IF contains_key(packet_send, from)
        THEN send_nack(from, packet, fragment.fragment_index, ErrorInRouting(to))
        ELSE Panic
    ELSE IF At(h.hops, h.hop_index) # id THEN
        IF contains_key(packet_send, from)
        THEN send_nack(from, packet, fragment.fragment_index, UnexpectedRecipient(id))
        ELSE Panic
    ELSE
        LET out == IF settings.quack
                   THEN [fragment EXCEPT !.data = quacked(fragment.data)]
                   ELSE fragment
        IN channel_send(to, Packet([h EXCEPT !.hop_index = h.hop_index + 1],
                                   packet.session_id, out))

\* msg_fragment_handler from the drop roll on, the roll having come out `roll`.
fragment_rolled(packet, fragment, from, to, roll) ==
    IF roll = "panic" THEN Panic
    ELSE IF roll = "true" THEN
        IF contains_key(packet_send, from)
        THEN send_nack(from, packet, fragment.fragment_index, Dropped)
        ELSE Panic
    ELSE fragment_not_dropped(packet, fragment, from, to)

\* A variant of msg_fragment_handler that makes the drop roll before the last-hop
\* check.
msg_fragment_handler_roll_first(packet, fragment) ==
    LET h == packet.routing_header
        from == unwrap(previous_hop(h))
        last == IF contains_key(packet_send, from)
                THEN send_nack(from, packet, fragment.fragment_index, DestinationIsDrone)
                ELSE Panic
    IN IF next_hop(h) = None /\ ~is_last_hop(h) THEN {Panic}
       ELSE {[(IF roll = "panic" THEN Panic
               ELSE IF roll = "true" THEN
                   IF contains_key(packet_send, from)
                   THEN send_nack(from, packet, fragment.fragment_index, Dropped)
                   ELSE Panic
               ELSE IF is_last_hop(h) THEN last
               ELSE fragment_not_dropped(packet, fragment, from, unwrap(next_hop(h))))
                 EXCEPT !.roll = roll] : roll \in gen_bool(drop_rate)}

msg_fragment_handler(packet, fragment) ==
    LET h == packet.routing_header
        from == unwrap(previous_hop(h))
    IN IF is_last_hop(h) THEN
           IF contains_key(packet_send, from)
           THEN {send_nack(from, packet, fragment.fragment_index, DestinationIsDrone)}
           ELSE {Panic}
       ELSE IF next_hop(h) = None THEN {Panic}
       ELSE {[fragment_rolled(packet, fragment, from, unwrap(next_hop(h)), roll)
                 EXCEPT !.roll = roll] : roll \in gen_bool(drop_rate)}

\* The skeleton nack_handler, ack_handler and flood_res_handler share, from the
\* routing-error check on; `to` is None when hops has no entry at hop_index + 1.
\* A variant of signal_routed that runs the packet through the filter, as the
\* fragment handler does, before forwarding it.
signal_routed_filtered(packet, fragment_index, from, to) ==
    LET h == packet.routing_header IN
    IF to = None THEN Panic
    ELSE IF settings.filter_packets /\ ~is_allowed(filter, from) THEN Silent
    ELSE IF ~contains_key(packet_send, unwrap(to)) THEN
        IF contains_key(packet_send, from)
        THEN send_nack_through_controller(packet, fragment_index, ErrorInRouting(unwrap(to)))
        ELSE Panic
    ELSE IF At(h.hops, h.hop_index) # id THEN
        IF contains_key(packet_send, from)
        THEN send_nack_through_controller(packet, fragment_index, UnexpectedRecipient(id))
        ELSE Panic
    ELSE channel_send(unwrap(to), [packet EXCEPT !.routing_header.hop_index = h.hop_index + 1])

signal_routed(packet, fragment_index, from, to) ==
    LET h == packet.routing_header IN
    IF to = None THEN Panic
    ELSE IF ~contains_key(packet_send, unwrap(to)) THEN
        IF contains_key(packet_send, from)
        THEN send_nack_through_controller(packet, fragment_index, ErrorInRouting(unwrap(to)))
        ELSE Panic
    ELSE IF At(h.hops, h.hop_index) # id THEN
        IF contains_key(packet_send, from)
        THEN send_nack_through_controller(packet, fragment_index, UnexpectedRecipient(id))
        ELSE Panic
    ELSE channel_send(unwrap(to), [packet EXCEPT !.routing_header.hop_index = h.hop_index + 1])

nack_handler(packet, nack) ==
    LET h == packet.routing_header
        from == unwrap(previous_hop(h))
    IN IF is_last_hop(h) THEN
           IF contains_key(packet_send, from)
           THEN send_nack_through_controller(packet, nack.fragment_index, DestinationIsDrone)
           ELSE Panic
       ELSE signal_routed(packet, nack.fragment_index, from, next_hop(h))

ack_handler(packet, ack) ==
    LET h == packet.routing_header
        from == At(h.hops, h.hop_index - 1)
    IN IF is_last_hop(h) THEN
           IF contains_key(packet_send, from)
           THEN send_nack_through_controller(packet, ack.fragment_index, DestinationIsDrone)
           ELSE Panic
       ELSE signal_routed(packet, ack.fragment_index, from, Get(h.hops, h.hop_index + 1))

flood_res_handler(packet) ==
    LET h == packet.routing_header
        from == At(h.hops, h.hop_index - 1)
    IN IF h.hop_index = Len(h.hops) THEN
           IF contains_key(packet_send, from)
           THEN send_nack_through_controller(packet, U64_MAX, DestinationIsDrone)
           ELSE Panic
       ELSE signal_routed(packet, U64_MAX, from, Get(h.hops, h.hop_index + 1))

\* A variant of flood_respond that addresses the response with the trace as it
\* stands, not reversed.
flood_respond_unreversed(packet, request, trace, from) ==
    IF ~contains_key(packet_send, from) THEN Panic
    ELSE channel_send(from,
             Packet(Header(1, [i \in 1..Len(trace) |-> trace[i][1]]),
                    packet.session_id,
                    FloodResponse(request.flood_id, trace)))

\* A variant of flood_respond that also records the flood_id of the request it
\* answers.
flood_respond_recorded(packet, request, trace, from) ==
    IF ~contains_key(packet_send, from) THEN Panic
    ELSE LET o == channel_send(from,
                      Packet(Header(1, Reverse([i \in 1..Len(trace) |-> trace[i][1]])),
                             packet.session_id,
                             FloodResponse(request.flood_id, trace)))
         IN [o EXCEPT !.flood_ids = Append(flood_ids, request.flood_id)]

\* A variant of flood_respond whose header keeps the cursor on the responder.
flood_respond_cursor_zero(packet, request, trace, from) ==
    IF ~contains_key(packet_send, from) THEN Panic
    ELSE channel_send(from,
             Packet(Header(0, Reverse([i \in 1..Len(trace) |-> trace[i][1]])),
                    packet.session_id,
                    FloodResponse(request.flood_id, trace)))

\* The FloodResponse flood_req_handler builds and sends back to `from`.
flood_respond(packet, request, trace, from) ==
    IF ~contains_key(packet_send, from) THEN Panic
    ELSE channel_send(from,
             Packet(Header(1, Reverse([i \in 1..Len(trace) |-> trace[i][1]])),
                    packet.session_id,
                    FloodResponse(request.flood_id, trace)))

\* The orders in which a HashMap iteration can visit the keys in S.
Orders(S) == {o \in [1..Cardinality(S) -> S] : \A i, j \in 1..Cardinality(S) : o[i] = o[j] => i = j}

\* A variant of flood_forward whose copies keep the incoming routing header.
flood_forward_header_kept(packet, request, trace, order) ==
    LET bad == {i \in 1..Len(order) : packet_send[order[i]] \in closed}
        n == IF bad = {} THEN Len(order)
             ELSE (CHOOSE i \in bad : \A j \in bad : i <= j) - 1
        p == Packet(packet.routing_header, packet.session_id,
                    FloodRequest(request.flood_id, trace))
    IN Outcome([i \in 1..n |-> [to |-> order[i], chan |-> packet_send[order[i]], packet |-> p]],
               <<>>, Append(flood_ids, request.flood_id), bad # {})

\* A variant of flood_forward that does not record the flood_id.
flood_forward_not_recorded(packet, request, trace, order) ==
    LET bad == {i \in 1..Len(order) : packet_send[order[i]] \in closed}
        n == IF bad = {} THEN Len(order)
             ELSE (CHOOSE i \in bad : \A j \in bad : i <= j) - 1
        p == Packet(default_header, packet.session_id, FloodRequest(request.flood_id, trace))
    IN Outcome([i \in 1..n |-> [to |-> order[i], chan |-> packet_send[order[i]], packet |-> p]],
               <<>>, flood_ids, bad # {})

\* flood_req_handler's fan-out, the neighbors visited in `order`: the sends stop at
\* the first channel whose receiver is gone.
flood_forward(packet, request, trace, order) ==
    LET bad == {i \in 1..Len(order) : packet_send[order[i]] \in closed}
        n == IF bad = {} THEN Len(order)
             ELSE (CHOOSE i \in bad : \A j \in bad : i <= j) - 1
        p == Packet(default_header, packet.session_id, FloodRequest(request.flood_id, trace))
    IN Outcome([i \in 1..n |-> [to |-> order[i], chan |-> packet_send[order[i]], packet |-> p]],
               <<>>, Append(flood_ids, request.flood_id), bad # {})

\* A variant of flood_req_handler that records the flood_id at a dead end too.
flood_req_handler_dead_end_recorded(packet, request) ==
    IF Len(request.path_trace) = 0 THEN {Panic}
    ELSE LET from == request.path_trace[Len(request.path_trace)][1]
             trace == Append(request.path_trace, <<id, "Drone">>)
         IN IF Contains(flood_ids, request.flood_id) THEN
                {flood_respond(packet, request, trace, from)}
            ELSE IF Cardinality(DOMAIN packet_send) = 1 THEN
                {[flood_respond(packet, request, trace, from)
                     EXCEPT !.flood_ids = Append(flood_ids, request.flood_id)]}
            ELSE {flood_forward(packet, request, trace, order) :
                      order \in Orders(DOMAIN packet_send \ {from})}

\* A variant of flood_req_handler that does not look the flood_id up: with more
\* than one neighbor it always fans out.
flood_req_handler_seen_ignored(packet, request) ==
    IF Len(request.path_trace) = 0 THEN {Panic}
    ELSE LET from == request.path_trace[Len(request.path_trace)][1]
             trace == Append(request.path_trace, <<id, "Drone">>)
         IN IF Cardinality(DOMAIN packet_send) = 1 THEN
                {flood_respond(packet, request, trace, from)}
            ELSE {flood_forward(packet, request, trace, order) :
                      order \in Orders(DOMAIN packet_send \ {from})}

flood_req_handler(packet, request) ==
    IF Len(request.path_trace) = 0 THEN {Panic}
    ELSE LET from == request.path_trace[Len(request.path_trace)][1]
             trace == Append(request.path_trace, <<id, "Drone">>)
         IN IF Contains(flood_ids, request.flood_id) THEN
                {flood_respond(packet, request, trace, from)}
            ELSE IF Cardinality(DOMAIN packet_send) = 1 THEN
                {flood_respond(packet, request, trace, from)}
            ELSE {flood_forward(packet, request, trace, order) :
                      order \in Orders(DOMAIN packet_send \ {from})}

\* A variant of packet_handler that discards a packet whose cursor is beyond its
\* hops instead of aborting.
packet_handler_overrun_ignored(packet) ==
    LET h == packet.routing_header
        t == packet.pack_type
    IN IF h.hop_index < 1 /\ t.tag # "FloodRequest" THEN {Panic}
       ELSE IF h.hop_index > Len(h.hops) /\ t.tag # "FloodRequest" THEN {Silent}
       ELSE CASE t.tag = "Nack" -> {nack_handler(packet, t)}
              [] t.tag = "Ack" -> {ack_handler(packet, t)}
              [] t.tag = "MsgFragment" -> msg_fragment_handler(packet, t)
              [] t.tag = "FloodRequest" -> flood_req_handler(packet, t)
              [] t.tag = "FloodResponse" -> {flood_res_handler(packet)}

\* packet_handler on Ok(packet): the outcomes servicing the packet can have.
packet_handler(packet) ==
    LET h == packet.routing_header
        t == packet.pack_type
    IN IF h.hop_index < 1 /\ t.tag # "FloodRequest" THEN {Panic}
       ELSE IF h.hop_index > Len(h.hops) /\ t.tag # "FloodRequest" THEN {Panic}
       ELSE CASE t.tag = "Nack" -> {nack_handler(packet, t)}
              [] t.tag = "Ack" -> {ack_handler(packet, t)}
              [] t.tag = "MsgFragment" -> msg_fragment_handler(packet, t)
              [] t.tag = "FloodRequest" -> flood_req_handler(packet, t)
              [] t.tag = "FloodResponse" -> {flood_res_handler(packet)}

(***************************************************************************)
(* Commands (controller_commands.rs, command_handler).                     *)
(***************************************************************************)
AddSender(n, sender) == [tag |-> "AddSender", id |-> n, sender |-> sender]
RemoveSender(n) == [tag |-> "RemoveSender", id |-> n]
SetPacketDropRate(r) == [tag |-> "SetPacketDropRate", pdr |-> r]
Crash == [tag |-> "Crash"]

\* A variant of the conversion that hands a Crash to the corruption toggle.
from_crash_as_quack(cmd) ==
    IF cmd.tag = "Crash" THEN [tag |-> "Quack", command |-> cmd]
    ELSE [tag |-> "DroneCommand", command |-> cmd]

\* impl From<DroneCommand> for RustableCommand
from(cmd) == [tag |-> "DroneCommand", command |-> cmd]

\* The fields a command can change.
Fields == [drop_rate |-> drop_rate, packet_send |-> packet_send, settings |-> settings,
           filter |-> filter, has_to_crash |-> has_to_crash]

add_channel(s, n, sender) ==
    IF contains_key(s.packet_send, n) THEN s
    ELSE [s EXCEPT !.packet_send =
              [k \in DOMAIN s.packet_send \cup {n} |->
                   IF k = n THEN sender ELSE s.packet_send[k]]]

remove_channel(s, n) ==
    IF ~contains_key(s.packet_send, n) THEN s
    ELSE [s EXCEPT !.packet_send = [k \in DOMAIN s.packet_send \ {n} |-> s.packet_send[k]],
                   !.filter = remove(s.filter, n)]

\* command_handler on Ok(command): the fields after the command.
command_handler(command) ==
    LET rc == from(command)
        c == rc.command
        s == Fields
    IN CASE rc.tag = "DroneCommand" ->
              (CASE c.tag = "AddSender" -> add_channel(s, c.id, c.sender)
                 [] c.tag = "RemoveSender" -> remove_channel(s, c.id)
                 [] c.tag = "SetPacketDropRate" ->
                        IF ~c.pdr.nan /\ (c.pdr.pct < 0 \/ c.pdr.pct > 100) THEN s
                        ELSE [s EXCEPT !.drop_rate = c.pdr]
                 [] c.tag = "Crash" -> [s EXCEPT !.has_to_crash = TRUE])
         [] rc.tag = "SettingCommand" ->
              (CASE c.tag = "LogToStdout" -> [s EXCEPT !.settings.log_to_stdout = c.val]
                 [] c.tag = "SleepDuration" -> [s EXCEPT !.settings.sleep_duration = c.val]
                 [] c.tag = "AwaitQueuedPacketsOnCrash" ->
                        [s EXCEPT !.settings.await_queued_packets_on_crash = c.val]
                 [] c.tag = "FilterPackets" -> [s EXCEPT !.settings.filter_packets = c.val]
                 [] c.tag = "SendNackOnFilteredPackets" ->
                        [s EXCEPT !.settings.send_nack_on_filtered_packet = c.val])
         [] rc.tag = "FilterCommand" ->
              (CASE c.tag = "AddId" -> [s EXCEPT !.filter = add(s.filter, c.id)]
                 [] c.tag = "RemoveId" -> [s EXCEPT !.filter = remove(s.filter, c.id)]
                 [] c.tag = "Clear" -> [s EXCEPT !.filter = clear(s.filter)]
                 [] c.tag = "Set" -> [s EXCEPT !.filter = set(s.filter, c.list)]
                 [] c.tag = "SetType" -> [s EXCEPT !.filter = set_type(s.filter, c.type)])
         [] rc.tag = "Quack" -> [s EXCEPT !.settings.quack = ~s.settings.quack]

(***************************************************************************)
(* RustableDrone::run, one action per branch.                              *)
(***************************************************************************)
Running == pc = "loop" /\ ~has_to_crash
CommandReady == controller_recv # <<>> \/ "controller_recv" \in hung_up

\* Take the head of the packet inlet and run packet_handler on it.
ServicePacket ==
    /\ packet_recv # <<>>
    /\ \E o \in packet_handler(Head(packet_recv)) :
           /\ sent' = o.sends
           /\ events' = o.events
           /\ flood_ids' = o.flood_ids
           /\ rolled' = o.roll
           /\ pc' = IF o.panic THEN "panicked" ELSE pc
    /\ packet_recv' = Tail(packet_recv)
    /\ handled' = <<"packet", Head(packet_recv)>>
    /\ serviced_after' = IF has_to_crash THEN serviced_after + 1 ELSE serviced_after
    /\ UNCHANGED <<id, drop_rate, packet_send, settings, filter, has_to_crash,
                   controller_recv, hung_up, closed, backlog>>

\* if self.has_to_crash { if !await_queued_packets_on_crash { return } ... }
RunCrashReturn ==
    /\ pc = "loop" /\ has_to_crash
    /\ ~settings.await_queued_packets_on_crash
    /\ pc' = "returned"
    /\ UNCHANGED <<net, node_fields, controller_recv, packet_recv, hung_up, closed,
                   sent, events, handled, rolled, backlog, serviced_after>>

\* RunDrainEnter with the crash policy not looked at: the while-let is entered
\* whenever has_to_crash is set.
RunDrainEnter_policy_ignored ==
    /\ pc = "loop" /\ has_to_crash
    /\ pc' = "drain"
    /\ UNCHANGED <<net, node_fields, controller_recv, packet_recv, hung_up, closed,
                   sent, events, handled, rolled, backlog, serviced_after>>

\* ... otherwise the while-let over try_recv is entered.
RunDrainEnter ==
    /\ pc = "loop" /\ has_to_crash
    /\ settings.await_queued_packets_on_crash
    /\ pc' = "drain"
    /\ UNCHANGED <<net, node_fields, controller_recv, packet_recv, hung_up, closed,
                   sent, events, handled, rolled, backlog, serviced_after>>

\* while let Ok(packet) = try_recv() { packet_handler(Ok(packet)) }
RunDrainPacket ==
    /\ pc = "drain"
    /\ ServicePacket
    /\ UNCHANGED net

\* try_recv found nothing: the while-let ends and the outer loop goes round.
RunDrainExit ==
    /\ pc = "drain"
    /\ packet_recv = <<>>
    /\ pc' = "loop"
    /\ UNCHANGED <<net, node_fields, controller_recv, packet_recv, hung_up, closed,
                   sent, events, handled, rolled, backlog, serviced_after>>

\* RunSelectCommand in a loop that goes on selecting after a Crash.
RunSelectCommand_crash_ignored ==
    /\ pc = "loop"
    /\ controller_recv # <<>>
    /\ LET c == Head(controller_recv)
           s == command_handler(c)
       IN /\ drop_rate' = s.drop_rate
          /\ packet_send' = s.packet_send
          /\ settings' = s.settings
          /\ filter' = s.filter
          /\ has_to_crash' = s.has_to_crash
          /\ handled' = <<"command", c>>
          /\ rolled' = "none"
          /\ backlog' = IF s.has_to_crash THEN Len(packet_recv) ELSE backlog
    /\ controller_recv' = Tail(controller_recv)
    /\ sent' = <<>>
    /\ events' = <<>>
    /\ UNCHANGED <<net, id, flood_ids, packet_recv, hung_up, closed, pc, serviced_after>>

\* select_biased!: the command inlet holds an item.
RunSelectCommand ==
    /\ Running
    /\ controller_recv # <<>>
    /\ LET c == Head(controller_recv)
           s == command_handler(c)
       IN /\ drop_rate' = s.drop_rate
          /\ packet_send' = s.packet_send
          /\ settings' = s.settings
          /\ filter' = s.filter
          /\ has_to_crash' = s.has_to_crash
          /\ handled' = <<"command", c>>
          /\ rolled' = "none"
          /\ backlog' = IF s.has_to_crash THEN Len(packet_recv) ELSE backlog
    /\ controller_recv' = Tail(controller_recv)
    /\ sent' = <<>>
    /\ events' = <<>>
    /\ UNCHANGED <<net, id, flood_ids, packet_recv, hung_up, closed, pc, serviced_after>>

\* select_biased!: the command inlet is empty and disconnected, recv gives Err.
RunSelectCommandErr ==
    /\ Running
    /\ controller_recv = <<>> /\ "controller_recv" \in hung_up
    /\ pc' = "panicked"
    /\ sent' = <<>>
    /\ events' = <<>>
    /\ rolled' = "none"
    /\ UNCHANGED <<net, node_fields, controller_recv, packet_recv, hung_up, closed,
                   handled, backlog, serviced_after>>

\* RunSelectPacket under an unbiased select: a ready packet may be taken while a
\* command is pending.
RunSelectPacket_unbiased ==
    /\ Running
    /\ ServicePacket
    /\ UNCHANGED net

\* select_biased!: no command is ready and the packet inlet holds an item.
RunSelectPacket ==
    /\ Running
    /\ ~CommandReady
    /\ ServicePacket
    /\ UNCHANGED net

\* select_biased!: no command is ready, the packet inlet is empty and disconnected.
RunSelectPacketErr ==
    /\ Running
    /\ ~CommandReady
    /\ packet_recv = <<>> /\ "packet_recv" \in hung_up
    /\ pc' = "panicked"
    /\ sent' = <<>>
    /\ events' = <<>>
    /\ rolled' = "none"
    /\ UNCHANGED <<net, node_fields, controller_recv, packet_recv, hung_up, closed,
                   handled, backlog, serviced_after>>

(***************************************************************************)
(* The environment: the controller and the neighbors, which hold the       *)
(* senders of the two inlets and the receivers of the outbound channels.   *)
(***************************************************************************)
Alive == pc \in {"loop", "drain"}

SessionIds == {7}
FragmentData == <<10, 20, 30, 40, 50, 60>>

\* The packets the neighbors send while the loop runs: a fragment to forward
\* and an Ack that ends here.
LoopPackets ==
    { Packet(Header(1, <<2, 1, 3>>), 7, MsgFragment(0, FragmentData)),
      Packet(Header(1, <<2, 1>>), 7, Ack(0)) }

\* The commands the controller sends while the loop runs.
LoopCommands ==
    { Crash, AddSender(3, PacketChan(3)), RemoveSender(3), SetPacketDropRate(Rate(100)) }

ControllerSends ==
    /\ Alive
    /\ "controller_recv" \notin hung_up
    /\ Len(controller_recv) < MaxQueue
    /\ \E c \in LoopCommands : controller_recv' = Append(controller_recv, c)
    /\ UNCHANGED <<net, node_fields, packet_recv, hung_up, closed, pc, sent, events,
                   handled, rolled, backlog, serviced_after>>

NeighborSends ==
    /\ Alive
    /\ "packet_recv" \notin hung_up
    /\ Len(packet_recv) < MaxQueue
    /\ serviced_after <= MaxQueue
    /\ \E p \in LoopPackets : packet_recv' = Append(packet_recv, p)
    /\ UNCHANGED <<net, node_fields, controller_recv, hung_up, closed, pc, sent, events,
                   handled, rolled, backlog, serviced_after>>

\* The last sender of an inlet is dropped.
HangUp ==
    /\ Alive
    /\ \E inlet \in {"controller_recv", "packet_recv"} \ hung_up :
           hung_up' = hung_up \cup {inlet}
    /\ UNCHANGED <<net, node_fields, controller_recv, packet_recv, closed, pc, sent, events,
                   handled, rolled, backlog, serviced_after>>

(***************************************************************************)
(* Spec: the loop, from a freshly constructed node whose owner has chosen  *)
(* the crash policy, fed by the controller and the neighbors.              *)
(***************************************************************************)
Wired(S) == [n \in S |-> PacketChan(n)]

Init ==
    /\ id \in DroneIds
    /\ drop_rate = Rate(0)
    /\ packet_send = Wired({2, 3})
    /\ settings \in {[settings_default EXCEPT !.await_queued_packets_on_crash = a] :
                        a \in BOOLEAN}
    /\ filter = filter_default
    /\ flood_ids = <<>>
    /\ has_to_crash = FALSE
    /\ controller_recv = <<>>
    /\ packet_recv = <<>>
    /\ hung_up = {}
    /\ closed = {}
    /\ pc = "loop"
    /\ sent = <<>>
    /\ events = <<>>
    /\ handled = <<"none">>
    /\ rolled = "none"
    /\ backlog = 0
    /\ serviced_after = 0
    /\ net = NoNet

Next ==
    \/ RunCrashReturn
    \/ RunDrainEnter
    \/ RunDrainPacket
    \/ RunDrainExit
    \/ RunSelectCommand
    \/ RunSelectCommandErr
    \/ RunSelectPacket
    \/ RunSelectPacketErr
    \/ ControllerSends
    \/ NeighborSends
    \/ HangUp

Spec == Init /\ [][Next]_vars

(***************************************************************************)
(* SpecPackets: a configured node with one packet waiting in its packet    *)
(* inlet and no command pending; the loop takes the packet and handles it. *)
(***************************************************************************)
TestHops == UNION {[1..n -> NodeIds] : n \in 0..MaxHops}
TestHeaders == {Header(i, h) : i \in 0..MaxHops, h \in TestHops}

FragmentPackets ==
    {Packet(h, s, MsgFragment(4, FragmentData)) : h \in TestHeaders, s \in SessionIds}

SignalPackets ==
    {Packet(h, s, t) : h \in TestHeaders, s \in SessionIds,
                       t \in {Ack(4), Nack(4, Dropped),
                              FloodResponse(1, << <<3, "Server">>, <<2, "Drone">> >>)}}

TestFilters == {[list |-> l, filter_type |-> t] :
                    l \in {<<>>, <<2>>}, t \in {"BlackList", "WhiteList"}}

TestClosed == {{}, {PacketChan(2)}, {EventChan}}

InitNode ==
    /\ id \in DroneIds
    /\ packet_send \in {Wired(S) : S \in SUBSET {2, 3}}
    /\ closed \in TestClosed
    /\ flood_ids = <<>>
    /\ has_to_crash = FALSE
    /\ controller_recv = <<>>
    /\ hung_up = {}
    /\ pc = "loop"
    /\ sent = <<>>
    /\ events = <<>>
    /\ handled = <<"none">>
    /\ rolled = "none"
    /\ backlog = 0
    /\ serviced_after = 0
    /\ net = NoNet

InitFragment ==
    /\ InitNode
    /\ drop_rate \in {Rate(0), Rate(50), Rate(100), NaN}
    /\ settings \in {[settings_default EXCEPT !.filter_packets = fp,
                                              !.send_nack_on_filtered_packet = sn,
                                              !.quack = q] :
                        fp \in BOOLEAN, sn \in BOOLEAN, q \in BOOLEAN}
    /\ filter \in TestFilters
    /\ \E p \in FragmentPackets : packet_recv = <<p>>

InitSignal ==
    /\ InitNode
    /\ drop_rate \in {Rate(0), Rate(100), NaN}
    /\ settings \in {[settings_default EXCEPT !.filter_packets = fp,
                                              !.send_nack_on_filtered_packet = sn] :
                        fp \in BOOLEAN, sn \in BOOLEAN}
    /\ filter \in {filter_default, [list |-> <<>>, filter_type |-> "WhiteList"]}
    /\ \E p \in SignalPackets : packet_recv = <<p>>

\* FloodRequests under test: any header (the validation does not look at it), a
\* trace whose last entry is a would-be neighbor, and one with no entry at all.
FloodNeighbors == {2, 3, 4}
FloodTraces ==
    { <<>>,
      << <<2, "Client">> >>,
      << <<3, "Client">>, <<2, "Drone">> >>,
      << <<2, "Client">>, <<1, "Drone">>, <<3, "Drone">> >> }
FloodPackets ==
    {Packet(h, s, FloodRequest(1, t)) : h \in TestHeaders, s \in SessionIds, t \in FloodTraces}
TestFloodIds == {<<>>, <<1>>, <<2>>}

\* The node's drop rate and filter, for requests: nothing dropped and nothing
\* filtered, or every fragment dropped and every sender filtered.
FloodRegimes ==
    { <<Rate(0), filter_default>>,
      <<Rate(100), [list |-> <<>>, filter_type |-> "WhiteList"]>> }

InitFlood ==
    /\ id \in DroneIds
    /\ \E r \in FloodRegimes : drop_rate = r[1] /\ filter = r[2]
    /\ packet_send \in {Wired(S) : S \in SUBSET FloodNeighbors}
    /\ settings = settings_default
    /\ flood_ids \in TestFloodIds
    /\ has_to_crash = FALSE
    /\ controller_recv = <<>>
    /\ \E p \in FloodPackets : packet_recv = <<p>>
    /\ hung_up = {}
    /\ closed \in TestClosed
    /\ pc = "loop"
    /\ sent = <<>>
    /\ events = <<>>
    /\ handled = <<"none">>
    /\ rolled = "none"
    /\ backlog = 0
    /\ serviced_after = 0
    /\ net = NoNet

InitPackets == InitFragment \/ InitSignal \/ InitFlood

NextPackets == RunSelectPacket

SpecPackets == InitPackets /\ [][NextPackets]_vars

(***************************************************************************)
(* Claims about the loop (checked under Spec).                             *)
(***************************************************************************)
Draining == has_to_crash /\ settings.await_queued_packets_on_crash
CrashingNow == has_to_crash /\ ~settings.await_queued_packets_on_crash

TookCommand == controller_recv # <<>> /\ controller_recv' = Tail(controller_recv)
TookPacket == packet_recv # <<>> /\ packet_recv' = Tail(packet_recv)
\* A step of the node, as opposed to one of the controller or of a neighbor.
NodeStep ==
    \/ TookCommand
    \/ TookPacket
    \/ <<node_fields, pc, sent, events, handled, rolled>>' #
           <<node_fields, pc, sent, events, handled, rolled>>

\* C1 (as claimed): once a Crash has been processed with
\* await_queued_packets_on_crash set, the node leaves the draining while-loop only
\* by returning: as soon as try_recv finds the packet inlet empty, run returns.
C1_DrainEndsInReturn ==
    [][(Draining /\ pc = "drain" /\ packet_recv = <<>> /\ pc' # pc) => pc' = "returned"]_vars

\* C2 (as claimed): with await_queued_packets_on_crash set and K packets buffered
\* when Crash is processed, no more than those K packets are ever serviced after
\* the Crash: packets that arrive later are never serviced.
C2_ServicesOnlyBacklog ==
    Draining => serviced_after <= backlog

\* C3: with await_queued_packets_on_crash false when Crash is processed, the next
\* loop iteration returns and nothing else can happen in the node: after the Crash
\* no item is taken from either inlet (the last item taken stays the Crash, no
\* packet is serviced) and no packet or event is emitted, whatever the packet
\* inlet holds.
C3_ImmediateCrash ==
    CrashingNow =>
        /\ pc \in {"loop", "returned"}
        /\ handled = <<"command", Crash>>
        /\ serviced_after = 0
        /\ sent = <<>> /\ events = <<>>
        /\ pc = "loop" =>
               /\ ENABLED RunCrashReturn
               /\ ~ENABLED (RunDrainEnter \/ RunDrainPacket \/ RunDrainExit
                            \/ RunSelectCommand \/ RunSelectCommandErr
                            \/ RunSelectPacket \/ RunSelectPacketErr)

\* C3's case: the node has returned after a Crash without draining, and packets
\* are still buffered in its inlet.
C3_Witness ==
    CrashingNow /\ pc = "returned" /\ Len(packet_recv) = MaxQueue

\* C4: in the Running state an iteration takes exactly one item, from the head of
\* one inlet; when both inlets hold an item it is the command, and a packet is
\* taken only when no command is pending.
C4_CommandPriority ==
    [][(Running /\ NodeStep) =>
          /\ ~(TookCommand /\ TookPacket)
          /\ (TookCommand \/ TookPacket \/ pc' = "panicked")
          /\ (controller_recv # <<>> /\ packet_recv # <<>>) =>
                 /\ TookCommand
                 /\ packet_recv' = packet_recv
                 /\ handled' = <<"command", Head(controller_recv)>>
          /\ TookPacket =>
                 /\ controller_recv = <<>>
                 /\ controller_recv' = controller_recv
                 /\ handled' = <<"packet", Head(packet_recv)>>
          /\ TookCommand => packet_recv' = packet_recv]_vars

\* C4's case: a command has just been serviced while packets were waiting.
C4_Witness ==
    /\ pc = "loop" /\ ~has_to_crash
    /\ handled[1] = "command"
    /\ Len(packet_recv) = MaxQueue
    /\ controller_recv # <<>>

(***************************************************************************)
(* SpecFloods: a node with MaxQueue FloodRequests waiting, from any of its  *)
(* would-be neighbors and for either of two flood_ids, while the controller *)
(* adds and removes a neighbor between them.                                *)
(***************************************************************************)
SeqFloodIds == {1, 2}
SeqFloodPackets ==
    {Packet(default_header, s, FloodRequest(f, << <<n, "Client">> >>)) :
        s \in SessionIds, f \in SeqFloodIds, n \in FloodNeighbors}
TableCommands == {AddSender(4, PacketChan(4)), RemoveSender(4)}

InitFloods ==
    /\ id \in DroneIds
    /\ drop_rate = Rate(0)
    /\ packet_send \in {Wired(S) : S \in SUBSET FloodNeighbors}
    /\ settings = settings_default
    /\ filter = filter_default
    /\ flood_ids = <<>>
    /\ has_to_crash = FALSE
    /\ controller_recv = <<>>
    /\ packet_recv \in [1..MaxQueue -> SeqFloodPackets]
    /\ hung_up = {}
    /\ closed \in {{}, {PacketChan(3)}}
    /\ pc = "loop"
    /\ sent = <<>>
    /\ events = <<>>
    /\ handled = <<"none">>
    /\ rolled = "none"
    /\ backlog = 0
    /\ serviced_after = 0
    /\ net = NoNet

\* The controller sends a command while requests are still waiting.
TableControllerSends ==
    /\ Alive
    /\ controller_recv = <<>>
    /\ packet_recv # <<>>
    /\ \E c \in TableCommands : controller_recv' = <<c>>
    /\ UNCHANGED <<net, node_fields, packet_recv, hung_up, closed, pc, sent, events,
                   handled, rolled, backlog, serviced_after>>

NextFloods ==
    \/ RunSelectPacket
    \/ RunSelectCommand
    \/ TableControllerSends

SpecFloods == InitFloods /\ [][NextFloods]_vars

(***************************************************************************)
(* SpecMixed: a node with MaxQueue packets waiting, FloodRequests and       *)
(* source-routed packets mixed, while the controller adds and removes a     *)
(* neighbor and may crash the node, which then drains its packet inlet.     *)
(***************************************************************************)
MixedPackets == SeqFloodPackets \cup LoopPackets
MixedCommands == TableCommands \cup {Crash}

InitMixed ==
    /\ id \in DroneIds
    /\ drop_rate = Rate(0)
    /\ packet_send \in {Wired(S) : S \in SUBSET FloodNeighbors}
    /\ settings = settings_default
    /\ filter = filter_default
    /\ flood_ids = <<>>
    /\ has_to_crash = FALSE
    /\ controller_recv = <<>>
    /\ packet_recv \in [1..MaxQueue -> MixedPackets]
    /\ hung_up = {}
    /\ closed \in {{}, {PacketChan(3)}}
    /\ pc = "loop"
    /\ sent = <<>>
    /\ events = <<>>
    /\ handled = <<"none">>
    /\ rolled = "none"
    /\ backlog = 0
    /\ serviced_after = 0
    /\ net = NoNet

\* The controller sends a command while packets are still waiting.
MixedControllerSends ==
    /\ Alive
    /\ controller_recv = <<>>
    /\ packet_recv # <<>>
    /\ \E c \in MixedCommands : controller_recv' = <<c>>
    /\ UNCHANGED <<net, node_fields, packet_recv, hung_up, closed, pc, sent, events,
                   handled, rolled, backlog, serviced_after>>

NextMixed ==
    \/ RunSelectPacket
    \/ RunSelectCommand
    \/ RunDrainEnter
    \/ RunDrainPacket
    \/ RunDrainExit
    \/ MixedControllerSends

SpecMixed == InitMixed /\ [][NextMixed]_vars

(***************************************************************************)
(* SpecCommands: the owner of a constructed node sets up its filter through *)
(* PacketFilter's methods (the field is public), then the loop runs and the *)
(* controller sends it commands.                                            *)
(***************************************************************************)
MaxList == 2      \* longest list handed to PacketFilter::set

FilterIds == {2, 3}
SetLists == UNION {[1..n -> FilterIds] : n \in 0..MaxList}
NewChan(n) == <<"packet", n, "new">>
TestRates == {Rate(-50), Rate(0), Rate(50), Rate(100), Rate(150), NaN}
TestCommands ==
    {AddSender(n, NewChan(n)) : n \in FilterIds}
        \cup {RemoveSender(n) : n \in FilterIds}
        \cup {SetPacketDropRate(r) : r \in TestRates}
        \cup {Crash}

InitCommands ==
    /\ id \in DroneIds
    /\ drop_rate \in {Rate(0), Rate(100)}
    /\ packet_send \in {Wired(S) : S \in SUBSET FilterIds}
    /\ settings = settings_default
    /\ filter = filter_default
    /\ flood_ids = <<>>
    /\ has_to_crash = FALSE
    /\ controller_recv = <<>>
    /\ packet_recv = <<>>
    /\ hung_up = {}
    /\ closed = {}
    /\ pc = "loop"
    /\ sent = <<>>
    /\ events = <<>>
    /\ handled = <<"none">>
    /\ rolled = "none"
    /\ backlog = 0
    /\ serviced_after = 0
    /\ net = NoNet

\* drone.filter.add(..) / remove(..) / clear() / set(..) / set_type(..), called by
\* the owner before the loop has taken anything.
OwnerSetsFilter ==
    /\ handled = <<"none">>
    /\ controller_recv = <<>>
    /\ \/ \E n \in FilterIds : filter' = add(filter, n)
       \/ \E n \in FilterIds : filter' = remove(filter, n)
       \/ filter' = clear(filter)
       \/ \E l \in SetLists : filter' = set(filter, l)
       \/ \E t \in {"BlackList", "WhiteList"} : filter' = set_type(filter, t)
    /\ UNCHANGED <<net, id, drop_rate, packet_send, settings, flood_ids, has_to_crash,
                   controller_recv, packet_recv, hung_up, closed, pc, sent, events,
                   handled, rolled, backlog, serviced_after>>

CommandControllerSends ==
    /\ Alive
    /\ controller_recv = <<>>
    /\ \E c \in TestCommands : controller_recv' = <<c>>
    /\ UNCHANGED <<net, node_fields, packet_recv, hung_up, closed, pc, sent, events,
                   handled, rolled, backlog, serviced_after>>

NextCommands ==
    \/ OwnerSetsFilter
    \/ CommandControllerSends
    \/ RunSelectCommand

SpecCommands == InitCommands /\ [][NextCommands]_vars

(***************************************************************************)
(* SpecNet: a network of nodes. Every drone of NetDrones is a RustableDrone *)
(* with its own thread, neighbor table, flood_ids and packet inlet, kept in *)
(* net; a client starts one flood. The threads are interleaved send by send: *)
(* NetLoad puts a drone and the packet at the head of its inlet into the    *)
(* node's variables, NetHandle runs the loop's packet arm on it, which      *)
(* touches only that drone's own fields, and leaves the Sender::send calls  *)
(* the handler makes in the drone's outbox; NetSend performs them one at a  *)
(* time, in order, with the other threads free to run in between; whether a *)
(* send finds its receiver gone is settled when the send is made. A drone   *)
(* takes its next packet when its handler has made all its sends.           *)
(*   net.table[m]  the neighbors of m (the topology, fixed)                 *)
(*   net.seen[m]   flood_ids of drone m                                     *)
(*   net.inbox[m]  the packet inlet of m                                    *)
(*   net.outbox[m] the sends the running handler of m has still to make     *)
(*   net.dead      the drones whose thread has panicked                     *)
(*   net.focus     the drone loaded into the node's variables, 0 if none    *)
(*   net.count     FloodRequests put on a channel so far                    *)
(***************************************************************************)
NetDrones == {1, 2, 3}
NetClient == 4
NetNodes == NetDrones \cup {NetClient}
\* The client is wired to drone 1; every other link may or may not be there.
NetLinks == {{1, 2}, {1, 3}, {2, 3}, {2, NetClient}}
NetTable(E) ==
    [m \in NetNodes |-> {k \in NetNodes : k # m /\ {m, k} \in E \cup {{1, NetClient}}}]
\* The request the client floods its neighbors with.
FloodOrigin == Packet(default_header, 7, FloodRequest(1, << <<NetClient, "Client">> >>))
\* Each node sends a flood to each of its neighbors at most once.
NetBound(t) == Cardinality({e \in NetNodes \X NetNodes : e[2] \in t[e[1]]})

IsFloodRequest(p) == p.pack_type.tag = "FloodRequest"
\* The client's sends of the request, one per neighbor, in the order o.
ClientSends(o) == [i \in 1..Len(o) |-> [to |-> o[i], packet |-> FloodOrigin]]

InitNet ==
    /\ id \in DroneIds
    /\ drop_rate = Rate(0)
    /\ packet_send = Wired({})
    /\ settings = settings_default
    /\ filter = filter_default
    /\ flood_ids = <<>>
    /\ has_to_crash = FALSE
    /\ controller_recv = <<>>
    /\ packet_recv = <<>>
    /\ hung_up = {}
    /\ closed = {}
    /\ pc = "loop"
    /\ sent = <<>>
    /\ events = <<>>
    /\ handled = <<"none">>
    /\ rolled = "none"
    /\ backlog = 0
    /\ serviced_after = 0
    /\ \E E \in SUBSET NetLinks :
           LET t == NetTable(E) IN
           \E o \in Orders(t[NetClient]) :
               net = [table |-> t,
                      seen |-> [m \in NetDrones |-> <<>>],
                      inbox |-> [m \in NetNodes |-> <<>>],
                      outbox |-> [m \in NetNodes |->
                                     IF m = NetClient THEN ClientSends(o) ELSE <<>>],
                      dead |-> {},
                      focus |-> 0,
                      count |-> 0]

\* The thread of drone n is scheduled with a packet waiting in its inlet. (The
\* guard on net.count keeps the model finite; the flood never reaches it.)
NetLoad(n) ==
    /\ net.focus = 0
    /\ n \notin net.dead
    /\ net.outbox[n] = <<>>
    /\ net.inbox[n] # <<>>
    /\ net.count <= NetBound(net.table)
    /\ id' = n
    /\ packet_send' = Wired(net.table[n])
    /\ flood_ids' = net.seen[n]
    /\ packet_recv' = <<Head(net.inbox[n])>>
    /\ closed' = {}
    /\ pc' = "loop"
    /\ sent' = <<>>
    /\ events' = <<>>
    /\ handled' = <<"none">>
    /\ rolled' = "none"
    /\ net' = [net EXCEPT !.focus = n, !.inbox[n] = Tail(@)]
    /\ UNCHANGED <<drop_rate, settings, filter, has_to_crash, controller_recv, hung_up,
                   backlog, serviced_after>>

\* select_biased!, packet arm, in the scheduled drone: the handler's effect on
\* the drone's own fields, and the sends it makes, in order, still to be made.
NetHandle ==
    /\ net.focus # 0
    /\ Running
    /\ ~CommandReady
    /\ ServicePacket
    /\ net' = [net EXCEPT
                  !.focus = 0,
                  !.seen[id] = flood_ids',
                  !.outbox[id] = [i \in 1..Len(sent') |->
                                     [to |-> sent'[i].to, packet |-> sent'[i].packet]],
                  !.dead = IF pc' = "panicked" THEN @ \cup {id} ELSE @]

\* One Sender::send of the running handler of n: the packet arrives in the inlet
\* of the receiver; when the receiver's thread has panicked by then, the send
\* gives Err and n panics, its remaining sends unmade.
NetSend(n) ==
    /\ net.outbox[n] # <<>>
    /\ LET e == Head(net.outbox[n])
           rest == Tail(net.outbox[n])
       IN IF e.to \in net.dead
          THEN net' = [net EXCEPT !.outbox[n] = <<>>,
                                  !.dead = @ \cup {n}]
          ELSE net' = [net EXCEPT
                          !.outbox[n] = rest,
                          !.inbox[e.to] = Append(@, e.packet),
                          !.count = @ + (IF IsFloodRequest(e.packet) THEN 1 ELSE 0)]
    /\ UNCHANGED <<node_fields, controller_recv, packet_recv, hung_up, closed, pc,
                   sent, events, handled, rolled, backlog, serviced_after>>

\* The client takes a packet from its inlet.
NetClientReceives ==
    /\ net.focus = 0
    /\ net.inbox[NetClient] # <<>>
    /\ net' = [net EXCEPT !.inbox[NetClient] = Tail(@)]
    /\ UNCHANGED <<node_fields, controller_recv, packet_recv, hung_up, closed, pc,
                   sent, events, handled, rolled, backlog, serviced_after>>

NetSchedule == \E n \in NetDrones : NetLoad(n)
NetDeliver == \E n \in NetNodes : NetSend(n)

NextNet ==
    \/ NetSchedule
    \/ NetHandle
    \/ NetDeliver
    \/ NetClientReceives

SpecNet == InitNet /\ [][NextNet]_vars

\* Every thread that can take a step eventually takes one.
SpecNetFair ==
    /\ SpecNet
    /\ \A n \in NetDrones : WF_vars(NetLoad(n))
    /\ WF_vars(NetHandle)
    /\ \A n \in NetNodes : WF_vars(NetSend(n))
    /\ WF_vars(NetClientReceives)

(***************************************************************************)
(* Claims about packet handling (checked under SpecPackets). The state     *)
(* after a packet was serviced holds the packet (handled), what it made the *)
(* node send (sent, events), how the drop roll came out (rolled) and        *)
(* whether the thread panicked (pc); packet handling leaves the node's      *)
(* configuration as it was when the packet was taken.                       *)
(***************************************************************************)
Serviced(tags) == handled[1] = "packet" /\ handled[2].pack_type.tag \in tags
TheP == handled[2]
TheH == handled[2].routing_header
ValidHeader == TheH.hop_index >= 1 /\ TheH.hop_index <= Len(TheH.hops)
HasNextHop == TheH.hop_index + 1 < Len(TheH.hops)
TheFrom == At(TheH.hops, TheH.hop_index - 1)
TheTo == At(TheH.hops, TheH.hop_index + 1)
\* A neighbor: a key of the neighbor table whose channel is open.
Neighbor(n) == n \in DOMAIN packet_send /\ packet_send[n] \notin closed
FilterRejects(n) == settings.filter_packets /\ ~is_allowed(filter, n)
\* A packet of the serviced packet's kind was put on a neighbor channel.
Forwarded == \E i \in 1..Len(sent) : sent[i].packet.pack_type.tag = TheP.pack_type.tag
\* Exactly one packet was sent, a Nack of the given kind for the serviced
\* fragment, on the channel of neighbor n; nothing went to the controller.
OneNackTo(n, kind) ==
    /\ Len(sent) = 1
    /\ sent[1].to = n
    /\ sent[1].chan = packet_send[n]
    /\ sent[1].packet.pack_type = Nack(TheP.pack_type.fragment_index, kind)
    /\ sent[1].packet.session_id = TheP.session_id
    /\ events = <<>>
    /\ pc # "panicked"

\* C5: whenever a Fragment, Ack, Nack or FloodResponse is forwarded, exactly one
\* packet is sent, on the channel of next_hop = hops[hop_index + 1]; its hop_index
\* is the incoming one plus 1, its hops and session_id are the incoming ones and,
\* with the corruption mode off, so is its payload; nothing goes to the controller.
C5_CursorAdvance ==
    (Serviced({"MsgFragment", "Ack", "Nack", "FloodResponse"}) /\ Forwarded) =>
        /\ Len(sent) = 1
        /\ HasNextHop
        /\ sent[1].to = TheTo
        /\ sent[1].chan = packet_send[TheTo]
        /\ sent[1].packet.routing_header.hop_index = TheH.hop_index + 1
        /\ sent[1].packet.routing_header.hops = TheH.hops
        /\ sent[1].packet.session_id = TheP.session_id
        /\ ~settings.quack => sent[1].packet.pack_type = TheP.pack_type
        /\ TheP.pack_type.tag # "MsgFragment" => sent[1].packet.pack_type = TheP.pack_type
        /\ events = <<>>

\* C5's case: a fragment was forwarded with the corruption mode off.
C5_Witness ==
    /\ Serviced({"MsgFragment"}) /\ Forwarded
    /\ ~settings.quack
    /\ TheH.hop_index = 1 /\ Len(TheH.hops) = MaxHops

\* C6: a Fragment at its last hop (hop_index = len(hops) - 1) whose previous hop
\* is a neighbor yields exactly one Nack(DestinationIsDrone), sent to the previous
\* hop, and is not forwarded, for every drop_rate and every filter state: the drop
\* roll is not made.
C6_LastHopPrecedence ==
    (Serviced({"MsgFragment"}) /\ ValidHeader /\ is_last_hop(TheH) /\ Neighbor(TheFrom)) =>
        /\ OneNackTo(TheFrom, DestinationIsDrone)
        /\ ~Forwarded
        /\ rolled = "none"

\* C6's case: a last-hop fragment from a neighbor the filter rejects, with
\* drop_rate = 1, was answered.
C6_Witness ==
    /\ Serviced({"MsgFragment"}) /\ ValidHeader /\ is_last_hop(TheH) /\ Neighbor(TheFrom)
    /\ drop_rate = Rate(100)
    /\ FilterRejects(TheFrom)
    /\ sent # <<>>

\* C7: a non-last-hop Fragment whose previous hop is a neighbor is, with
\* drop_rate = 1, answered by exactly one Nack(Dropped) to the previous hop and not
\* forwarded, whatever the filter says; with drop_rate = 0 the roll never drops.
C7_DropRollBoundary ==
    (Serviced({"MsgFragment"}) /\ ValidHeader /\ ~is_last_hop(TheH) /\ Neighbor(TheFrom)) =>
        /\ drop_rate = Rate(100) => (OneNackTo(TheFrom, Dropped) /\ ~Forwarded)
        /\ drop_rate = Rate(0) => rolled # "true"

\* C8 as stated: a non-last-hop Fragment that survives the drop roll while the
\* filter rejects its previous hop is not forwarded; with
\* send_nack_on_filtered_packet off nothing is sent, with it on exactly one
\* Nack(Dropped) goes to the previous hop. With filter_packets off the fragment is
\* forwarded exactly when the remaining checks pass.
SurvivedRoll == Serviced({"MsgFragment"}) /\ ValidHeader /\ ~is_last_hop(TheH) /\ rolled = "false"
PassesRouting == Neighbor(TheTo) /\ At(TheH.hops, TheH.hop_index) = id

C8_FilterRejection_Original ==
    SurvivedRoll =>
        /\ FilterRejects(TheFrom) =>
              /\ ~Forwarded
              /\ ~settings.send_nack_on_filtered_packet => (sent = <<>> /\ events = <<>>)
              /\ settings.send_nack_on_filtered_packet => OneNackTo(TheFrom, Dropped)
        /\ ~settings.filter_packets => (Forwarded <=> PassesRouting)

\* C8, amended: the Nack(Dropped) of the filter is promised only when the previous
\* hop is a neighbor; without a channel to it the node aborts.
C8_FilterRejection ==
    SurvivedRoll =>
        /\ FilterRejects(TheFrom) =>
              /\ ~Forwarded
              /\ ~settings.send_nack_on_filtered_packet =>
                     (sent = <<>> /\ events = <<>> /\ pc # "panicked")
              /\ (settings.send_nack_on_filtered_packet /\ Neighbor(TheFrom)) =>
                     OneNackTo(TheFrom, Dropped)
              /\ (settings.send_nack_on_filtered_packet /\ ~Neighbor(TheFrom)) =>
                     (sent = <<>> /\ events = <<>> /\ pc = "panicked")
        /\ ~settings.filter_packets => (Forwarded <=> PassesRouting)

\* C8's case: the filter alone rejected a fragment and a Nack(Dropped) went back.
C8_Witness ==
    /\ SurvivedRoll /\ FilterRejects(TheFrom) /\ PassesRouting
    /\ settings.send_nack_on_filtered_packet
    /\ OneNackTo(TheFrom, Dropped)

\* C9 as stated: for a Fragment past the last-hop, drop and filter checks, a
\* next_hop outside the neighbor table yields Nack(ErrorInRouting(next_hop)) to the
\* previous hop, also when hops[hop_index] # id; Nack(UnexpectedRecipient(id)) is
\* emitted when, and only when, next_hop is in the table and hops[hop_index] # id;
\* neither case forwards.
PastFilter == SurvivedRoll /\ ~FilterRejects(TheFrom)
EmitsUnexpectedRecipient ==
    \E i \in 1..Len(sent) :
        /\ sent[i].packet.pack_type.tag = "Nack"
        /\ sent[i].packet.pack_type.nack_type = UnexpectedRecipient(id)

C9_RoutingErrorFirst_Original ==
    PastFilter =>
        /\ ~contains_key(packet_send, TheTo) =>
               (OneNackTo(TheFrom, ErrorInRouting(TheTo)) /\ ~Forwarded)
        /\ (contains_key(packet_send, TheTo) /\ At(TheH.hops, TheH.hop_index) # id) =>
               (OneNackTo(TheFrom, UnexpectedRecipient(id)) /\ ~Forwarded)
        /\ EmitsUnexpectedRecipient =>
               (contains_key(packet_send, TheTo) /\ At(TheH.hops, TheH.hop_index) # id)

\* C9, amended: both Nacks are promised only when the previous hop is a neighbor;
\* without a channel to it the node aborts and nothing is sent.
C9_RoutingErrorFirst ==
    PastFilter =>
        /\ (~contains_key(packet_send, TheTo) /\ Neighbor(TheFrom)) =>
               (OneNackTo(TheFrom, ErrorInRouting(TheTo)) /\ ~Forwarded)
        /\ (contains_key(packet_send, TheTo) /\ At(TheH.hops, TheH.hop_index) # id
               /\ Neighbor(TheFrom)) =>
               (OneNackTo(TheFrom, UnexpectedRecipient(id)) /\ ~Forwarded)
        /\ ((~contains_key(packet_send, TheTo) \/ At(TheH.hops, TheH.hop_index) # id)
               /\ ~Neighbor(TheFrom)) =>
               (sent = <<>> /\ events = <<>> /\ pc = "panicked")
        /\ EmitsUnexpectedRecipient =>
               (contains_key(packet_send, TheTo) /\ At(TheH.hops, TheH.hop_index) # id)

\* C9's case: next_hop is outside the table and the node is not the header's
\* current hop either; the routing error was reported.
C9_Witness ==
    /\ PastFilter /\ Neighbor(TheFrom)
    /\ ~contains_key(packet_send, TheTo)
    /\ At(TheH.hops, TheH.hop_index) # id
    /\ OneNackTo(TheFrom, ErrorInRouting(TheTo))

\* C10: handling an Ack, Nack or FloodResponse from a neighbor, the controller
\* reachable, puts no newly built Nack on a neighbor channel; at the last hop, on a
\* next hop outside the neighbor table, or on hops[hop_index] # id (in that order)
\* it sends exactly one ControllerShortcut carrying a Nack of kind
\* DestinationIsDrone, ErrorInRouting(next_hop) or UnexpectedRecipient(id) with the
\* incoming session_id, and forwards nothing.
OneShortcut(kind) ==
    /\ sent = <<>>
    /\ Len(events) = 1
    /\ events[1].tag = "ControllerShortcut"
    /\ events[1].packet.pack_type.tag = "Nack"
    /\ events[1].packet.pack_type.nack_type = kind
    /\ events[1].packet.session_id = TheP.session_id
    /\ pc # "panicked"

C10_TerminalSignals ==
    (Serviced({"Ack", "Nack", "FloodResponse"}) /\ ValidHeader /\ Neighbor(TheFrom)
        /\ EventChan \notin closed) =>
        /\ \A i \in 1..Len(sent) :
               sent[i].packet.pack_type.tag = "Nack" =>
                   sent[i].packet = [TheP EXCEPT !.routing_header.hop_index = TheH.hop_index + 1]
        /\ is_last_hop(TheH) => OneShortcut(DestinationIsDrone)
        /\ (HasNextHop /\ ~contains_key(packet_send, TheTo)) =>
               OneShortcut(ErrorInRouting(TheTo))
        /\ (HasNextHop /\ contains_key(packet_send, TheTo)
               /\ At(TheH.hops, TheH.hop_index) # id) =>
               OneShortcut(UnexpectedRecipient(id))

\* C11: a FloodResponse arriving from a neighbor, the controller reachable, is at
\* its last hop both when hop_index = len(hops) - 1 and when hop_index = len(hops);
\* in either case the node sends one ControllerShortcut carrying
\* Nack(DestinationIsDrone), forwards nothing and does not abort.
C11_FloodResponseLastHop ==
    (Serviced({"FloodResponse"}) /\ ValidHeader /\ Neighbor(TheFrom)
        /\ EventChan \notin closed
        /\ (is_last_hop(TheH) \/ TheH.hop_index = Len(TheH.hops))) =>
        OneShortcut(DestinationIsDrone)

\* C17: handling a Fragment, Ack, Nack or FloodResponse with
\* 1 <= hop_index <= len(hops) aborts the node only if the channel to the previous
\* hop is missing or a send fails; when the previous hop is a neighbor and every
\* channel has its receiver, the packet ends in a forward, a Nack, a controller
\* shortcut or a silent filter drop.
SomeChannelClosed ==
    \/ EventChan \in closed
    \/ \E n \in DOMAIN packet_send : packet_send[n] \in closed
EndsHandled ==
    \/ Forwarded
    \/ Len(sent) = 1 /\ sent[1].packet.pack_type.tag = "Nack" /\ events = <<>>
    \/ sent = <<>> /\ Len(events) = 1 /\ events[1].tag = "ControllerShortcut"
    \/ sent = <<>> /\ events = <<>> /\ FilterRejects(TheFrom)

C17_ValidHeaderNotFatal ==
    (Serviced({"MsgFragment", "Ack", "Nack", "FloodResponse"}) /\ ValidHeader
        /\ ~drop_rate.nan) =>
        /\ pc = "panicked" => (~contains_key(packet_send, TheFrom) \/ SomeChannelClosed)
        /\ (Neighbor(TheFrom) /\ ~SomeChannelClosed) => (pc # "panicked" /\ EndsHandled)

(***************************************************************************)
(* Claims about FloodRequests. They are stated on the step that takes the   *)
(* request from the packet inlet: the unprimed variables are the node       *)
(* before, the primed ones the node after and what the request made it      *)
(* send.                                                                    *)
(***************************************************************************)
NextP == Head(packet_recv)
TakesFloodRequest ==
    /\ packet_recv # <<>>
    /\ NextP.pack_type.tag = "FloodRequest"
    /\ handled' = <<"packet", NextP>>
    /\ packet_recv' = Tail(packet_recv)
FloodId == NextP.pack_type.flood_id
Trace == NextP.pack_type.path_trace
FloodFrom == Trace[Len(Trace)][1]
TraceOut == Append(Trace, <<id, "Drone">>)
AllOpen == \A n \in DOMAIN packet_send : packet_send[n] \notin closed
\* What was sent is exactly one FloodResponse, on the channel of FloodFrom.
RespondsToFrom ==
    /\ Len(sent') = 1
    /\ sent'[1].to = FloodFrom
    /\ sent'[1].chan = packet_send[FloodFrom]
    /\ sent'[1].packet.pack_type.tag = "FloodResponse"
    /\ events' = <<>>
    /\ pc' # "panicked"
\* What was sent is one FloodRequest per neighbor other than FloodFrom.
FansOut ==
    /\ Len(sent') = Cardinality(DOMAIN packet_send \ {FloodFrom})
    /\ {sent'[i].to : i \in 1..Len(sent')} = DOMAIN packet_send \ {FloodFrom}
    /\ \A i \in 1..Len(sent') :
           /\ sent'[i].chan = packet_send[sent'[i].to]
           /\ sent'[i].packet.pack_type.tag = "FloodRequest"
    /\ events' = <<>>
    /\ pc' # "panicked"

\* C13: a node whose neighbor table has exactly one entry, taking a FloodRequest
\* with an unseen flood_id from that neighbor, sends exactly one FloodResponse to
\* it, forwards no FloodRequest and leaves flood_ids as they were.
C13_DeadEndFlood ==
    [][(TakesFloodRequest /\ Trace # <<>>
          /\ DOMAIN packet_send = {FloodFrom} /\ Neighbor(FloodFrom)
          /\ ~Contains(flood_ids, FloodId)) =>
          (RespondsToFrom /\ flood_ids' = flood_ids)]_vars

\* C13's case: the only neighbor's request with an unseen flood_id was answered.
C13_Witness ==
    /\ Serviced({"FloodRequest"})
    /\ Cardinality(DOMAIN packet_send) = 1
    /\ ~Contains(flood_ids, TheP.pack_type.flood_id)
    /\ Len(sent) = 1 /\ sent[1].packet.pack_type.tag = "FloodResponse"

\* C14: a FloodRequest with an unseen flood_id taken by a node with more than one
\* neighbor, all reachable, is sent exactly once to every neighbor other than
\* `from` (the last path_trace entry on arrival) and not to `from`; every copy has
\* the incoming flood_id and session_id, the incoming trace with (id, Drone)
\* appended, and an empty routing header.
C14_FanOutShape ==
    [][(TakesFloodRequest /\ Trace # <<>>
          /\ Cardinality(DOMAIN packet_send) > 1 /\ AllOpen
          /\ ~Contains(flood_ids, FloodId)) =>
          /\ FansOut
          /\ \A i \in 1..Len(sent') :
                 sent'[i].packet = Packet(Header(0, <<>>), NextP.session_id,
                                          FloodRequest(FloodId, TraceOut))]_vars

\* C14's case: a fan-out to two neighbors, none of them the sender.
C14_Witness ==
    /\ Serviced({"FloodRequest"})
    /\ Cardinality(DOMAIN packet_send) = 3
    /\ Len(sent) = 2
    /\ \A i \in 1..2 : sent[i].packet.pack_type.tag = "FloodRequest"
    /\ \A i \in 1..2 :
           sent[i].to # TheP.pack_type.path_trace[Len(TheP.pack_type.path_trace)][1]

\* C15: the FloodResponse a node builds (flood_id already seen, or dead end)
\* carries the incoming flood_id and session_id and the path_trace with
\* (id, Drone) appended; its hops are the node ids of that trace in reverse order,
\* so hops[0] = id, with hop_index = 1; it is the only packet sent and goes on the
\* channel of `from`.
C15_FloodResponseShape ==
    [][(TakesFloodRequest /\ \E i \in 1..Len(sent') :
                                 sent'[i].packet.pack_type.tag = "FloodResponse") =>
          /\ Trace # <<>>
          /\ Contains(flood_ids, FloodId) \/ Cardinality(DOMAIN packet_send) = 1
          /\ Len(sent') = 1
          /\ sent'[1].to = FloodFrom
          /\ sent'[1].chan = packet_send[FloodFrom]
          /\ sent'[1].packet.pack_type = FloodResponse(FloodId, TraceOut)
          /\ sent'[1].packet.session_id = NextP.session_id
          /\ sent'[1].packet.routing_header.hop_index = 1
          /\ Len(sent'[1].packet.routing_header.hops) = Len(TraceOut)
          /\ \A k \in 0..Len(TraceOut) - 1 :
                 At(sent'[1].packet.routing_header.hops, k) =
                     At(TraceOut, Len(TraceOut) - 1 - k)[1]
          /\ At(sent'[1].packet.routing_header.hops, 0) = id]_vars

\* C15's case: a request with a three-entry trace and a seen flood_id was answered.
C15_Witness ==
    /\ Serviced({"FloodRequest"})
    /\ Contains(flood_ids, TheP.pack_type.flood_id)
    /\ Len(TheP.pack_type.path_trace) = 3
    /\ Len(sent) = 1 /\ sent[1].packet.pack_type.tag = "FloodResponse"
    /\ sent[1].packet.routing_header.hops = <<1, 3, 1, 2>>

\* C18: a Fragment, Ack, Nack or FloodResponse with hop_index < 1 or
\* hop_index > len(hops) aborts the node before any handler runs: nothing is sent,
\* no drop roll is made and no field of the node changes. A FloodRequest is
\* handled whatever its header: from a reachable neighbor, all channels open, it
\* is answered or fanned out.
TakesRouted ==
    /\ packet_recv # <<>>
    /\ NextP.pack_type.tag \in {"MsgFragment", "Ack", "Nack", "FloodResponse"}
    /\ handled' = <<"packet", NextP>>
    /\ packet_recv' = Tail(packet_recv)
Malformed(h) == h.hop_index < 1 \/ h.hop_index > Len(h.hops)

C18_MalformedHeaderFatal ==
    [][/\ (TakesRouted /\ Malformed(NextP.routing_header)) =>
              /\ pc' = "panicked"
              /\ sent' = <<>> /\ events' = <<>> /\ rolled' = "none"
              /\ node_fields' = node_fields
       /\ (TakesFloodRequest /\ Trace # <<>> /\ Neighbor(FloodFrom) /\ AllOpen) =>
              (RespondsToFrom \/ FansOut)]_vars

\* C18's case: a packet whose cursor is beyond its hops was taken and the node
\* aborted.
C18_Witness ==
    /\ Serviced({"MsgFragment", "Ack", "Nack", "FloodResponse"})
    /\ TheH.hop_index > Len(TheH.hops) /\ Len(TheH.hops) > 0
    /\ pc = "panicked"

\* C12: a FloodRequest whose flood_id the node has seen is answered by exactly one
\* FloodResponse to its sender, with no fan-out and flood_ids unchanged; one whose
\* flood_id is unseen, at a node with at least two neighbors, is fanned out and
\* its flood_id recorded once. No step fans out a flood_id that is recorded, and
\* flood_ids changes only by a fan-out recording its flood_id: so two requests
\* with one flood_id give one fan-out, one FloodResponse and one new entry, and
\* over any sequence of steps a flood_id is fanned out at most once.
SendsFloodRequest == \E i \in 1..Len(sent') : sent'[i].packet.pack_type.tag = "FloodRequest"

C12_FloodIdempotence ==
    [][/\ TakesFloodRequest =>
              /\ (Contains(flood_ids, FloodId) /\ Neighbor(FloodFrom)) =>
                     (RespondsToFrom /\ flood_ids' = flood_ids)
              /\ (~Contains(flood_ids, FloodId) /\ Cardinality(DOMAIN packet_send) >= 2
                     /\ AllOpen) =>
                     (FansOut /\ flood_ids' = Append(flood_ids, FloodId))
              /\ SendsFloodRequest =>
                     /\ ~Contains(flood_ids, FloodId)
                     /\ \A i \in 1..Len(sent') :
                            sent'[i].packet.pack_type = FloodRequest(FloodId, TraceOut)
       /\ flood_ids' # flood_ids =>
              /\ TakesFloodRequest
              /\ ~Contains(flood_ids, FloodId)
              /\ flood_ids' = Append(flood_ids, FloodId)]_vars

\* C12's case: the node, with at least two neighbors, has taken every request; the
\* last one, for the one flood_id it had fanned out before, was answered.
C12_Witness ==
    /\ Serviced({"FloodRequest"})
    /\ packet_recv = <<>>
    /\ Cardinality(DOMAIN packet_send) >= 2
    /\ flood_ids = <<TheP.pack_type.flood_id>>
    /\ Len(sent) = 1 /\ sent[1].packet.pack_type.tag = "FloodResponse"
    /\ sent[1].to = TheP.pack_type.path_trace[1][1]

(***************************************************************************)
(* Claims about commands (checked under SpecCommands), stated on the step   *)
(* that takes the command from the command inlet.                           *)
(***************************************************************************)
NextC == Head(controller_recv)
TakesCommand ==
    /\ controller_recv # <<>>
    /\ handled' = <<"command", NextC>>
    /\ controller_recv' = Tail(controller_recv)
InUnit(r) == ~r.nan /\ r.pct >= 0 /\ r.pct <= 100

\* C19: AddSender for an id already in the neighbor table, RemoveSender for an id
\* not in it and SetPacketDropRate with a rate outside [0,1] change no field of
\* the node; no command aborts it; drop_rate, once within [0,1], stays there.
C19_FailedCommandsChangeNothing ==
    [][TakesCommand =>
          /\ pc' # "panicked"
          /\ (NextC.tag = "AddSender" /\ NextC.id \in DOMAIN packet_send) =>
                 node_fields' = node_fields
          /\ (NextC.tag = "RemoveSender" /\ NextC.id \notin DOMAIN packet_send) =>
                 node_fields' = node_fields
          /\ (NextC.tag = "SetPacketDropRate" /\ ~InUnit(NextC.pdr)) =>
                 node_fields' = node_fields
          /\ InUnit(drop_rate) => InUnit(drop_rate')]_vars

\* C20: after RemoveSender(id) for an id in the neighbor table, id is neither in
\* the neighbor table nor in the filter's list, whatever add, remove, clear and
\* set made of the filter before; under BlackList the id is allowed afterwards.
C20_RemoveSenderBothTables ==
    [][(TakesCommand /\ NextC.tag = "RemoveSender" /\ NextC.id \in DOMAIN packet_send) =>
          /\ NextC.id \notin DOMAIN packet_send'
          /\ ~Contains(filter'.list, NextC.id)
          /\ filter'.filter_type = "BlackList" => is_allowed(filter', NextC.id)]_vars

(***************************************************************************)
(* Claims about a network of nodes (checked under SpecNetFair).            *)
(***************************************************************************)
\* No FloodRequest waits in an inlet, is still to be sent by a running handler,
\* or is in the hands of a scheduled drone.
NetQuiet ==
    /\ \A m \in NetNodes : \A i \in 1..Len(net.inbox[m]) : ~IsFloodRequest(net.inbox[m][i])
    /\ \A m \in NetNodes :
          \A i \in 1..Len(net.outbox[m]) : ~IsFloodRequest(net.outbox[m][i].packet)
    /\ net.focus # 0 => \A i \in 1..Len(packet_recv) : ~IsFloodRequest(packet_recv[i])

\* C16: in a network with a fixed topology, cycles allowed, one flood causes
\* finitely many FloodRequest transmissions (no more than one per node and
\* neighbor), and eventually no FloodRequest is in flight any more.
C16_FloodTermination ==
    /\ [](net.count <= NetBound(net.table))
    /\ <>[]NetQuiet

\* C16's case: the flood has gone round the triangle of drones, each of which has
\* fanned it out, and has died down.
C16_Witness ==
    /\ net.focus = 0
    /\ NetQuiet
    /\ net.table[1] = {2, 3, NetClient} /\ 3 \in net.table[2]
    /\ \A n \in NetDrones : net.seen[n] = <<1>>
    /\ net.dead = {}

(***************************************************************************)
(* Claims about PacketFilter (checked under SpecCommands), stated on every  *)
(* filter the owner's calls and the controller's commands can produce.     *)
(***************************************************************************)
\* C21: is_allowed(id) is true under BlackList exactly when id is not in the
\* list and under WhiteList exactly when it is; the default filter allows every
\* id; after set(l) a member of l is allowed under WhiteList and refused under
\* BlackList; after clear() every id is allowed under BlackList and none under
\* WhiteList.
C21_FilterSemantics ==
    /\ filter.filter_type \in FilterTypes
    /\ \A n \in NodeIds :
          /\ filter.filter_type = "BlackList" =>
                 (is_allowed(filter, n) <=> ~Contains(filter.list, n))
          /\ filter.filter_type = "WhiteList" =>
                 (is_allowed(filter, n) <=> Contains(filter.list, n))
          /\ is_allowed(filter_default, n)
          /\ is_allowed(set_type(clear(filter), "BlackList"), n)
          /\ ~is_allowed(set_type(clear(filter), "WhiteList"), n)
    /\ \A l \in SetLists : \A i \in 1..Len(l) :
          /\ is_allowed(set_type(set(filter, l), "WhiteList"), l[i])
          /\ ~is_allowed(set_type(set(filter, l), "BlackList"), l[i])
          /\ is_allowed(set(filter, l), l[i]) <=> filter.filter_type = "WhiteList"

\* C21's case: the owner has set a list of two distinct ids and switched the
\* filter to WhiteList; the listed ids pass, the others do not.
C21_Witness ==
    /\ filter.filter_type = "WhiteList"
    /\ Len(filter.list) = 2
    /\ filter.list[1] # filter.list[2]
    /\ is_allowed(filter, filter.list[1])
    /\ \E n \in NodeIds : ~is_allowed(filter, n)

\* C22: in every filter state, set with any list included, add and remove are
\* idempotent (add;add = add, remove;remove = remove) and after one remove(id)
\* the list does not contain id.
C22_AddRemoveIdempotent ==
    \A n \in FilterIds :
        /\ add(add(filter, n), n) = add(filter, n)
        /\ remove(remove(filter, n), n) = remove(filter, n)
        /\ ~Contains(remove(filter, n).list, n)

(***************************************************************************)
(* Claims about what a step of the loop may change (checked under          *)
(* SpecMixed).                                                             *)
(***************************************************************************)
NoDuplicates(s) == \A i, j \in 1..Len(s) : s[i] = s[j] => i = j
IsPrefix(s, t) == Len(s) <= Len(t) /\ SubSeq(t, 1, Len(s)) = s
TakesPacket ==
    /\ packet_recv # <<>>
    /\ handled' = <<"packet", NextP>>
    /\ packet_recv' = Tail(packet_recv)

\* C23: servicing a packet, of any kind and whatever its outcome, leaves id,
\* drop_rate, the neighbor table, settings, filter and the crash latch as they
\* were; flood_ids changes only by gaining the flood_id of a FloodRequest that is
\* fanned out, which it did not hold; the neighbor table changes only on a step
\* that takes an AddSender or a RemoveSender; flood_ids never loses an entry and
\* never holds a flood_id twice.
C23_PacketFrame ==
    [][/\ TakesPacket =>
              /\ <<id, drop_rate, packet_send, settings, filter, has_to_crash>>' =
                     <<id, drop_rate, packet_send, settings, filter, has_to_crash>>
              /\ \/ flood_ids' = flood_ids
                 \/ /\ NextP.pack_type.tag = "FloodRequest"
                    /\ ~Contains(flood_ids, FloodId)
                    /\ flood_ids' = Append(flood_ids, FloodId)
                    /\ SendsFloodRequest \/ DOMAIN packet_send \ {FloodFrom} = {} \/ ~AllOpen
       /\ packet_send' # packet_send =>
              (TakesCommand /\ NextC.tag \in {"AddSender", "RemoveSender"})
       /\ IsPrefix(flood_ids, flood_ids')
       /\ NoDuplicates(flood_ids) => NoDuplicates(flood_ids')]_vars

\* C23's case: after a command changed the neighbor table, a FloodRequest has
\* been fanned out and a second flood_id recorded behind the first.
C23_Witness ==
    /\ Serviced({"FloodRequest"})
    /\ Len(flood_ids) = 2
    /\ flood_ids[2] = TheP.pack_type.flood_id
    /\ Len(sent) >= 1
    /\ \A i \in 1..Len(sent) : sent[i].packet.pack_type.tag = "FloodRequest"

(***************************************************************************)
(* Claims about the crash latch (checked under Spec).                      *)
(***************************************************************************)
\* C24: once a Crash has been processed, has_to_crash stays true, no item is
\* taken from the command inlet any more (what the controller queues behind the
\* Crash stays queued), and the neighbor table, drop_rate, settings and the
\* filter keep their values.
C24_CrashLatch ==
    [][has_to_crash =>
          /\ has_to_crash'
          /\ IsPrefix(controller_recv, controller_recv')
          /\ handled'[1] = "command" => handled' = handled
          /\ <<packet_send, drop_rate, settings, filter>>' =
                 <<packet_send, drop_rate, settings, filter>>]_vars

\* C24's case: after the Crash the node has serviced a packet while commands that
\* would change the neighbor table or the drop rate wait in the command inlet.
C24_Witness ==
    /\ has_to_crash
    /\ serviced_after >= 1
    /\ Len(controller_recv) = MaxQueue
    /\ \E i \in 1..Len(controller_recv) : controller_recv[i].tag = "RemoveSender"
    /\ \E i \in 1..Len(controller_recv) : controller_recv[i].tag = "SetPacketDropRate"
    /\ 3 \in DOMAIN packet_send
    /\ drop_rate = Rate(0)

(***************************************************************************)
(* Claims about the packets a node puts on its channels (checked under     *)
(* SpecPackets).                                                           *)
(***************************************************************************)
\* C25: every Nack sent while servicing a Fragment goes on the channel of the
\* previous hop `from`, carries the fragment's session_id and fragment_index, has
\* as hops the incoming hops reversed with the cursor at 1, and has its cursor on
\* `from`: hops[hop_index] = from.
C25_FragmentNackAddressing ==
    Serviced({"MsgFragment"}) =>
        \A i \in 1..Len(sent) :
            sent[i].packet.pack_type.tag = "Nack" =>
                /\ Len(sent) = 1
                /\ sent[i].to = TheFrom
                /\ sent[i].chan = packet_send[TheFrom]
                /\ sent[i].packet.session_id = TheP.session_id
                /\ sent[i].packet.pack_type.fragment_index = TheP.pack_type.fragment_index
                /\ sent[i].packet.routing_header.hops = Reverse(TheH.hops)
                /\ sent[i].packet.routing_header.hop_index = 1
                /\ At(sent[i].packet.routing_header.hops,
                      sent[i].packet.routing_header.hop_index) = TheFrom

\* C26: an Ack, Nack or FloodResponse with a next hop that is a neighbor and with
\* hops[hop_index] = self.id is forwarded to that next hop, unchanged but for the
\* cursor, whatever drop_rate (1 included), the filter and the filter settings
\* are; no drop roll is made for it. A FloodRequest is never dropped or filtered
\* either: no roll is made, and unless its handling aborts the node it is
\* answered or fanned out to every neighbor but its sender.
C26_OnlyFragmentsDropped ==
    /\ (Serviced({"Ack", "Nack", "FloodResponse"}) /\ ValidHeader /\ HasNextHop
           /\ Neighbor(TheTo) /\ At(TheH.hops, TheH.hop_index) = id) =>
           /\ rolled = "none"
           /\ pc # "panicked"
           /\ Len(sent) = 1
           /\ sent[1].to = TheTo
           /\ sent[1].chan = packet_send[TheTo]
           /\ sent[1].packet = [TheP EXCEPT !.routing_header.hop_index = TheH.hop_index + 1]
           /\ events = <<>>
    /\ Serviced({"Ack", "Nack", "FloodResponse", "FloodRequest"}) => rolled = "none"
    /\ (Serviced({"FloodRequest"}) /\ pc # "panicked") =>
           LET sender == TheP.pack_type.path_trace[Len(TheP.pack_type.path_trace)][1]
               answered == /\ Len(sent) = 1
                           /\ sent[1].to = sender
                           /\ sent[1].packet.pack_type.tag = "FloodResponse"
               fanned == /\ {sent[i].to : i \in 1..Len(sent)} = DOMAIN packet_send \ {sender}
                         /\ \A i \in 1..Len(sent) :
                                sent[i].packet.pack_type.tag = "FloodRequest"
           IN answered \/ fanned

\* C26's case: an Ack was forwarded by a node that drops every fragment and whose
\* filter allows no sender.
C26_Witness ==
    /\ Serviced({"Ack"})
    /\ drop_rate = Rate(100)
    /\ settings.filter_packets
    /\ filter = [list |-> <<>>, filter_type |-> "WhiteList"]
    /\ Len(sent) = 1
    /\ sent[1].packet.pack_type.tag = "Ack"
    /\ sent[1].to = TheTo

\* A packet the node sent that is source-routed and is not a Nack the fragment
\* handler made: a forwarded Fragment, Ack, Nack or FloodResponse, or a
\* FloodResponse made for a FloodRequest.
RoutedOut(i) ==
    /\ sent[i].packet.pack_type.tag # "FloodRequest"
    /\ ~(sent[i].packet.pack_type.tag = "Nack" /\ TheP.pack_type.tag = "MsgFragment")

\* C27: every source-routed packet put on the channel of neighbor n, by
\* forwarding a Fragment, Ack, Nack or FloodResponse or by making a FloodResponse,
\* has 1 <= hop_index <= len(hops) - 1 and hops[hop_index] = n.
C27_AddressingInvariant ==
    handled[1] = "packet" =>
        \A i \in 1..Len(sent) :
            RoutedOut(i) =>
                LET h == sent[i].packet.routing_header
                IN /\ 1 <= h.hop_index
                   /\ h.hop_index <= Len(h.hops) - 1
                   /\ At(h.hops, h.hop_index) = sent[i].to
                   /\ sent[i].chan = packet_send[sent[i].to]

\* C27's case: a FloodResponse was made for a request that had crossed three
\* nodes, and sent to the last of them.
C27_Witness ==
    /\ Serviced({"FloodRequest"})
    /\ Len(TheP.pack_type.path_trace) = 3
    /\ Len(sent) = 1
    /\ sent[1].packet.pack_type.tag = "FloodResponse"
    /\ sent[1].to = 3
    /\ sent[1].packet.routing_header = Header(1, <<1, 3, 1, 2>>)

(***************************************************************************)
(* Claims about the command inlet (checked under SpecCommands).            *)
(***************************************************************************)
\* C28: every item taken from the command inlet is an AddSender, RemoveSender,
\* SetPacketDropRate or Crash and is handled as one; the settings, filter and
\* corruption-toggle branches are not reached from the inlet. While the loop runs
\* settings and the filter's type do not change, and the filter's list changes
\* only by a RemoveSender that removes a neighbor.
C28_InletLifecycleOnly ==
    [][/\ TakesCommand =>
              /\ NextC.tag \in {"AddSender", "RemoveSender", "SetPacketDropRate", "Crash"}
              /\ from(NextC) = [tag |-> "DroneCommand", command |-> NextC]
              /\ settings' = settings
              /\ filter'.filter_type = filter.filter_type
              /\ filter'.list # filter.list =>
                     /\ NextC.tag = "RemoveSender"
                     /\ NextC.id \in DOMAIN packet_send
                     /\ NextC.id \notin DOMAIN packet_send'
                     /\ filter' = remove(filter, NextC.id)
       /\ handled # <<"none">> =>
              /\ settings' = settings
              /\ filter'.filter_type = filter.filter_type
              /\ filter' # filter => TakesCommand]_vars

\* C28's case: the loop has taken a Crash from the inlet after the owner had set
\* up a WhiteList; settings and filter are what the owner left.
C28_Witness ==
    /\ handled = <<"command", Crash>>
    /\ has_to_crash
    /\ settings = settings_default
    /\ filter = [list |-> <<2, 3>>, filter_type |-> "WhiteList"]
    /\ DOMAIN packet_send = {2, 3}

====
